---- MODULE Spec2Model ----
(***************************************************************************)
(* Model of the result-aggregator Lambda                                   *)
(* (services/mainframe-analyzer/src/result-aggregator-lambda/              *)
(* lambda_function.py): update_job_status and lambda_handler.              *)
(*                                                                         *)
(* One invocation of lambda_handler is a record (a "world") holding the    *)
(* handler's locals, its program position, the DynamoDB jobs table, the    *)
(* clock, and the history of the calls it made to S3 and to                *)
(* update_job_status.  Strings built by f-strings and joins are modelled   *)
(* as sequences of string tokens, composed the way the code composes them. *)
(***************************************************************************)
EXTENDS Integers, Sequences, FiniteSets, TLC

VARIABLES event, run, run2

vars == <<event, run, run2>>

----------------------------------------------------------------------------
(* Bounds of the model *)

MaxChunks == 2
MaxDirectCalls == 2

----------------------------------------------------------------------------
(* Values *)

NONE == "None"
MISSING == "<missing>"
EMPTY == ""
UNBOUND == "<unbound>"

JobIds == {"job-1"}
Buckets == {"bucket"}
Paths == {"out"}
SummaryKeys == {"k0", "k1"}
ChunkIndexes == {0, 1}

(* Tokens of the texts the handler builds *)
NL2 == "\n\n"
RULE == "=*80"
PROMPT_HEAD == "<analysis_prompt lines 93-103>"
PROMPT_TAIL == "<analysis_prompt lines 105-119>"
HDR_OPEN == "## CHUNK "
HDR_CLOSE == " ANALYSIS"
PROMPT_FILE == "/aggregated_analysis_prompt.txt"
FAILED_PREFIX == "Result aggregation failed: "
MISSING_PARAMS == "Missing required parameters"

(* Python truthiness of a parameter value: None and '' are falsy *)
Truthy(v) == v \notin {NONE, EMPTY}

(* dict.get(k): None when the key is missing *)
Get(d, k) == IF d[k] = MISSING THEN NONE ELSE d[k]

(* One element of chunk_results: a dict of the ChunkProcessor format, or a
   value that is not a dict (result.get raises AttributeError) *)
ChunkResult ==
    [status : {"error", "success"},
     summary_key : SummaryKeys \cup {NONE},
     chunk_index : ChunkIndexes]

NonDict == [dict |-> FALSE, val |-> [status |-> "", summary_key |-> NONE, chunk_index |-> 0]]

Entries == {NonDict} \cup {[dict |-> TRUE, val |-> c] : c \in ChunkResult}

SeqsUpTo(S, n) == UNION {[1..k -> S] : k \in 0..n}

(* event['chunk_results']: missing (the default [] is used), a list, or a
   value without len() such as null *)
ChunkResultsValues ==
    {[kind |-> "missing", items |-> <<>>], [kind |-> "null", items |-> <<>>]}
    \cup {[kind |-> "list", items |-> s] : s \in SeqsUpTo(Entries, MaxChunks)}

Events ==
    [job_id : JobIds \cup {MISSING, EMPTY},
     bucket_name : Buckets \cup {MISSING},
     output_path : Paths \cup {MISSING},
     chunk_results : ChunkResultsValues]

(* The objects earlier stages stored under the summary keys *)
S3Content(key) == IF key = "k0" THEN "summary-A" ELSE "summary-B"

(* get_object raises; get_object returns but read()/decode raises; both work *)
GetOutcomes == {"ok", "get_error", "decode_error"}

----------------------------------------------------------------------------
(* update_job_status and the DynamoDB jobs table *)

NoItem == [exists |-> FALSE, status |-> "", updated_at |-> 0, status_message |-> <<>>]

OldItem == [exists |-> TRUE, status |-> "PROCESSING", updated_at |-> 0,
            status_message |-> <<"old message">>]

Tables == [JobIds -> {NoItem, OldItem}]

(* SET #status = :status, updated_at = :time [, status_message = :message] *)
UpdateItem(item, status, now, message) ==
    [exists |-> TRUE,
     status |-> status,
     updated_at |-> now,
     status_message |-> IF message # <<>> THEN message ELSE item.status_message]

(* table.update_item fails when the store fails (dbok = FALSE) or the key is
   not a stored string (None, ''); the except clause swallows the failure *)
UpdateJobStatusRaising(table, now, job_id, status, message, dbok) ==
    IF dbok /\ job_id \in DOMAIN table
    THEN [table |-> [table EXCEPT ![job_id] = UpdateItem(@, status, now, message)],
          raised |-> FALSE]
    ELSE [table |-> table, raised |-> TRUE]

UpdateJobStatus(table, now, job_id, status, message, dbok) ==
    IF dbok /\ job_id \in DOMAIN table
    THEN [table |-> [table EXCEPT ![job_id] = UpdateItem(@, status, now, message)],
          raised |-> FALSE]
    ELSE [table |-> table, raised |-> FALSE]

----------------------------------------------------------------------------
(* One invocation of lambda_handler *)

Items(e) == e.chunk_results.items

NoReturn == [status |-> "<running>"]
Raised == [status |-> "<raised>"]

InitRun(table) ==
    [pc |-> "start",
     job_id |-> UNBOUND, bucket_name |-> UNBOUND, output_path |-> UNBOUND,
     i |-> 1,
     all_summaries |-> <<>>,
     gets |-> <<>>,
     puts |-> <<>>,
     requests |-> <<>>,
     exc |-> NONE,
     ret |-> NoReturn,
     table |-> table,
     clock |-> 1]

(* A call of update_job_status by the handler: the request is recorded, the
   clock is read, the table is updated unless the store fails *)
CallUpdate(w, job_id, status, message, dbok) ==
    LET r == UpdateJobStatus(w.table, w.clock, job_id, status, message, dbok)
    IN [w |-> [w EXCEPT !.table = r.table,
                        !.clock = @ + 1,
                        !.requests = Append(@, [job_id |-> job_id, status |-> status,
                                                message |-> message])],
        raised |-> r.raised]

(* An exception inside the try block: control goes to the except clause *)
Raise(w, cause) == [w EXCEPT !.pc = "except", !.exc = cause]

(* lines 46-52: the parameters, and len(chunk_results) in the log line *)
Extract(w, e) ==
    LET w1 == [w EXCEPT !.job_id = Get(e, "job_id"),
                        !.bucket_name = Get(e, "bucket_name"),
                        !.output_path = Get(e, "output_path")]
    IN IF e.chunk_results.kind = "null"
       THEN Raise(w1, "object of type 'NoneType' has no len()")
       ELSE [w1 EXCEPT !.pc = "validate"]

(* line 55: all([job_id, bucket_name, output_path]) *)
RequiredOnlyJobId(w) == Truthy(w.job_id)

Required(w) == Truthy(w.job_id) /\ Truthy(w.bucket_name) /\ Truthy(w.output_path)

(* lines 56-58 *)
RejectMissing(w, dbok) ==
    LET c == CallUpdate(w, w.job_id, "ERROR", <<MISSING_PARAMS>>, dbok)
    IN IF c.raised
       THEN Raise(c.w, "update_job_status")
       ELSE [c.w EXCEPT !.pc = "done",
                        !.ret = [status |-> "error", error |-> <<MISSING_PARAMS>>]]

(* lines 61-64 *)
StartAggregating(w, e, dbok) ==
    LET msg == <<"Collating summaries from ", ToString(Len(Items(e))),
                 " chunks and performing cross-chunk analysis">>
        c == CallUpdate(w, w.job_id, "AGGREGATING", msg, dbok)
    IN IF c.raised
       THEN Raise(c.w, "update_job_status")
       ELSE [c.w EXCEPT !.pc = "loop", !.i = 1, !.all_summaries = <<>>]

(* lines 67-75: the entries the loop passes over without reading S3 *)
Skipped(r) == r.status = "error" \/ ~Truthy(r.summary_key)

(* line 82 *)
Section(chunk_index, summary_content) ==
    <<HDR_OPEN, ToString(chunk_index), HDR_CLOSE, NL2, summary_content>>

(* lines 66-69, 72-75: continue *)
SkipChunkBreak(w) == [w EXCEPT !.i = @ + MaxChunks + 1]

SkipChunk(w) == [w EXCEPT !.i = @ + 1]

(* line 67 on an entry that is no dict: result.get raises AttributeError *)
BadChunk(w) == Raise(w, "object has no attribute 'get'")

(* lines 77-87 *)
FetchChunkKeepFailed(w, r, outcome) ==
    [w EXCEPT !.gets = Append(@, [bucket |-> w.bucket_name, key |-> r.summary_key,
                                  outcome |-> outcome, entry |-> w.i]),
              !.all_summaries = Append(@, Section(r.chunk_index, S3Content(r.summary_key))),
              !.i = @ + 1]

FetchChunk(w, r, outcome) ==
    [w EXCEPT !.gets = Append(@, [bucket |-> w.bucket_name, key |-> r.summary_key,
                                  outcome |-> outcome, entry |-> w.i]),
              !.all_summaries =
                  IF outcome = "ok"
                  THEN Append(@, Section(r.chunk_index, S3Content(r.summary_key)))
                  ELSE @,
              !.i = @ + 1]

(* sep.join(parts) *)
RECURSIVE Join(_, _)
Join(parts, sep) ==
    IF parts = <<>> THEN <<>>
    ELSE IF Len(parts) = 1 THEN Head(parts)
    ELSE Head(parts) \o <<sep>> \o Join(Tail(parts), sep)

(* line 90 *)
CombinedSummaries(all_summaries) == <<NL2, RULE>> \o Join(all_summaries, NL2)

(* lines 93-119 *)
AnalysisPrompt(all_summaries) ==
    <<PROMPT_HEAD>> \o CombinedSummaries(all_summaries) \o <<PROMPT_TAIL>>

(* line 122 *)
FullPromptKeyNoJob(output_path, job_id) == <<output_path, PROMPT_FILE>>

FullPromptKey(output_path, job_id) == <<output_path, "/", job_id, PROMPT_FILE>>

(* lines 90-129 *)
PutPromptSwallow(w, ok) ==
    [w EXCEPT !.puts = Append(@, [bucket |-> w.bucket_name,
                                  key |-> FullPromptKey(w.output_path, w.job_id),
                                  body |-> AnalysisPrompt(w.all_summaries),
                                  completed |-> ok]),
              !.pc = "saved"]

PutPrompt(w, ok) ==
    LET w1 == [w EXCEPT !.puts = Append(@, [bucket |-> w.bucket_name,
                                            key |-> FullPromptKey(w.output_path, w.job_id),
                                            body |-> AnalysisPrompt(w.all_summaries),
                                            completed |-> ok])]
    IN IF ok THEN [w1 EXCEPT !.pc = "saved"] ELSE Raise(w1, "put_object failed")

(* lines 132-146 *)
Finish(w, e, dbok) ==
    LET n == Len(Items(e))
        msg == <<"Aggregated ", ToString(n),
                 " chunk summaries and prepared cross-chunk analysis prompt">>
        c == CallUpdate(w, w.job_id, "AGGREGATED", msg, dbok)
    IN IF c.raised
       THEN Raise(c.w, "update_job_status")
       ELSE [c.w EXCEPT !.pc = "done",
                        !.ret = [job_id |-> w.job_id,
                                 bucket_name |-> w.bucket_name,
                                 full_prompt_key |-> FullPromptKey(w.output_path, w.job_id),
                                 output_path |-> w.output_path,
                                 status |-> "success",
                                 chunks_processed |-> n,
                                 cross_chunk_analysis |-> TRUE,
                                 message |-> msg]]

(* line 157-159: x if 'x' in locals() else None *)
Local(v) == IF v = UNBOUND THEN NONE ELSE v

(* lines 148-162 *)
ExceptIfTruthy(w, e, dbok) ==
    LET msg == <<FAILED_PREFIX, w.exc>>
        c == IF Truthy(Get(e, "job_id"))
             THEN CallUpdate(w, e.job_id, "FAILED", msg, dbok)
             ELSE [w |-> w, raised |-> FALSE]
    IN [c.w EXCEPT !.pc = "done",
                   !.ret = [job_id |-> Local(w.job_id),
                            bucket_name |-> Local(w.bucket_name),
                            output_path |-> Local(w.output_path),
                            status |-> "FAILED",
                            error |-> msg]]

Except(w, e, dbok) ==
    LET msg == <<FAILED_PREFIX, w.exc>>
        c == IF e.job_id # MISSING
             THEN CallUpdate(w, e.job_id, "FAILED", msg, dbok)
             ELSE [w |-> w, raised |-> FALSE]
    IN IF c.raised
       THEN [c.w EXCEPT !.pc = "done", !.ret = Raised]
       ELSE [c.w EXCEPT !.pc = "done",
                        !.ret = [job_id |-> Local(w.job_id),
                                 bucket_name |-> Local(w.bucket_name),
                                 output_path |-> Local(w.output_path),
                                 status |-> "FAILED",
                                 error |-> msg]]

----------------------------------------------------------------------------
(* The steps of one invocation as relations between the run before (w)
   and after (w2) *)

ExtractStep(w, w2) ==
    /\ w.pc = "start"
    /\ w2 = Extract(w, event)

RejectMissingStep(w, w2, dbok) ==
    /\ w.pc = "validate"
    /\ ~Required(w)
    /\ w2 = RejectMissing(w, dbok)

StartAggregatingStep(w, w2, dbok) ==
    /\ w.pc = "validate"
    /\ Required(w)
    /\ w2 = StartAggregating(w, event, dbok)

BadChunkStep(w, w2) ==
    /\ w.pc = "loop"
    /\ w.i <= Len(Items(event))
    /\ ~Items(event)[w.i].dict
    /\ w2 = BadChunk(w)

SkipChunkStep(w, w2) ==
    /\ w.pc = "loop"
    /\ w.i <= Len(Items(event))
    /\ Items(event)[w.i].dict
    /\ Skipped(Items(event)[w.i].val)
    /\ w2 = SkipChunk(w)

FetchChunkStep(w, w2, outcome) ==
    /\ w.pc = "loop"
    /\ w.i <= Len(Items(event))
    /\ Items(event)[w.i].dict
    /\ ~Skipped(Items(event)[w.i].val)
    /\ w2 = FetchChunk(w, Items(event)[w.i].val, outcome)

PutPromptStep(w, w2, ok) ==
    /\ w.pc = "loop"
    /\ w.i > Len(Items(event))
    /\ w2 = PutPrompt(w, ok)

FinishStep(w, w2, dbok) ==
    /\ w.pc = "saved"
    /\ w2 = Finish(w, event, dbok)

ExceptStep(w, w2, dbok) ==
    /\ w.pc = "except"
    /\ w2 = Except(w, event, dbok)

----------------------------------------------------------------------------
(* Specification of one invocation: Spec *)

Idle == InitRun([j \in JobIds |-> NoItem])

Init ==
    /\ event \in Events
    /\ \E t \in Tables : run = InitRun(t)
    /\ run2 = Idle

DoExtract ==
    /\ ExtractStep(run, run')
    /\ UNCHANGED <<event, run2>>

DoRejectMissing ==
    /\ \E dbok \in BOOLEAN : RejectMissingStep(run, run', dbok)
    /\ UNCHANGED <<event, run2>>

DoStartAggregating ==
    /\ \E dbok \in BOOLEAN : StartAggregatingStep(run, run', dbok)
    /\ UNCHANGED <<event, run2>>

DoBadChunk ==
    /\ BadChunkStep(run, run')
    /\ UNCHANGED <<event, run2>>

DoSkipChunk ==
    /\ SkipChunkStep(run, run')
    /\ UNCHANGED <<event, run2>>

DoFetchChunk ==
    /\ \E outcome \in GetOutcomes : FetchChunkStep(run, run', outcome)
    /\ UNCHANGED <<event, run2>>

DoPutPrompt ==
    /\ \E ok \in BOOLEAN : PutPromptStep(run, run', ok)
    /\ UNCHANGED <<event, run2>>

DoFinish ==
    /\ \E dbok \in BOOLEAN : FinishStep(run, run', dbok)
    /\ UNCHANGED <<event, run2>>

DoExcept ==
    /\ \E dbok \in BOOLEAN : ExceptStep(run, run', dbok)
    /\ UNCHANGED <<event, run2>>

Next ==
    \/ DoExtract
    \/ DoRejectMissing
    \/ DoStartAggregating
    \/ DoBadChunk
    \/ DoSkipChunk
    \/ DoFetchChunk
    \/ DoPutPrompt
    \/ DoFinish
    \/ DoExcept

Spec == Init /\ [][Next]_vars

----------------------------------------------------------------------------
(* Specification of two invocations on the same event that get the same
   answers from S3 and independent answers from the status store, and of
   update_job_status called by itself: SpecPair *)

DirectStatuses == {"PROCESSING", "AGGREGATED"}
DirectMessages == {<<>>, <<"note">>}

(* Either the handler is invoked (twice, on the same event and table), or
   update_job_status is called on its own and no event is handled *)
NoEvent ==
    [job_id |-> MISSING, bucket_name |-> MISSING, output_path |-> MISSING,
     chunk_results |-> [kind |-> "missing", items |-> <<>>]]

InitPair ==
    \/ /\ event \in Events
       /\ \E t \in Tables : run = InitRun(t) /\ run2 = InitRun(t)
    \/ /\ event = NoEvent
       /\ \E t \in Tables : run = [InitRun(t) EXCEPT !.pc = "idle"]
       /\ run2 = [Idle EXCEPT !.pc = "idle"]

(* update_job_status(job_id, status, message) called on its own *)
DirectUpdate ==
    /\ run.pc = "idle"
    /\ Len(run.requests) < MaxDirectCalls
    /\ \E j \in JobIds \cup {NONE}, st \in DirectStatuses, m \in DirectMessages,
          dbok \in BOOLEAN :
          run' = CallUpdate(run, j, st, m, dbok).w
    /\ UNCHANGED <<event, run2>>

PairExtract ==
    /\ ExtractStep(run, run')
    /\ ExtractStep(run2, run2')
    /\ UNCHANGED event

PairRejectMissing ==
    /\ \E d1, d2 \in BOOLEAN :
          RejectMissingStep(run, run', d1) /\ RejectMissingStep(run2, run2', d2)
    /\ UNCHANGED event

PairStartAggregating ==
    /\ \E d1, d2 \in BOOLEAN :
          StartAggregatingStep(run, run', d1) /\ StartAggregatingStep(run2, run2', d2)
    /\ UNCHANGED event

PairBadChunk ==
    /\ BadChunkStep(run, run')
    /\ BadChunkStep(run2, run2')
    /\ UNCHANGED event

PairSkipChunk ==
    /\ SkipChunkStep(run, run')
    /\ SkipChunkStep(run2, run2')
    /\ UNCHANGED event

PairFetchChunk ==
    /\ \E outcome \in GetOutcomes :
          FetchChunkStep(run, run', outcome) /\ FetchChunkStep(run2, run2', outcome)
    /\ UNCHANGED event

PairPutPrompt ==
    /\ \E ok \in BOOLEAN : PutPromptStep(run, run', ok) /\ PutPromptStep(run2, run2', ok)
    /\ UNCHANGED event

PairFinish ==
    /\ \E d1, d2 \in BOOLEAN : FinishStep(run, run', d1) /\ FinishStep(run2, run2', d2)
    /\ UNCHANGED event

PairExcept ==
    /\ \E d1, d2 \in BOOLEAN : ExceptStep(run, run', d1) /\ ExceptStep(run2, run2', d2)
    /\ UNCHANGED event

NextPair ==
    \/ DirectUpdate
    \/ PairExtract
    \/ PairRejectMissing
    \/ PairStartAggregating
    \/ PairBadChunk
    \/ PairSkipChunk
    \/ PairFetchChunk
    \/ PairPutPrompt
    \/ PairFinish
    \/ PairExcept

SpecPair == InitPair /\ [][NextPair]_vars

----------------------------------------------------------------------------
(* Vocabulary of the properties *)

Done == run.pc = "done"

ParamsPresent ==
    /\ Truthy(Get(event, "job_id"))
    /\ Truthy(Get(event, "bucket_name"))
    /\ Truthy(Get(event, "output_path"))

(* chunk_results is a list (or left out) and every entry of it is a dict *)
ListOfDicts ==
    /\ event.chunk_results.kind # "null"
    /\ \A k \in 1..Len(Items(event)) : Items(event)[k].dict

ExpectedKey == <<Get(event, "output_path"), "/", Get(event, "job_id"), PROMPT_FILE>>

PutCompleted == \E k \in 1..Len(run.puts) : run.puts[k].completed
PutFailed == \E k \in 1..Len(run.puts) : ~run.puts[k].completed

StatusSeq == [k \in 1..Len(run.requests) |-> run.requests[k].status]

(* The sections of a prompt text: header, blank line, content *)
RECURSIVE SectionsOf(_)
SectionsOf(t) ==
    IF Len(t) < 5 THEN <<>>
    ELSE IF t[1] = HDR_OPEN /\ t[3] = HDR_CLOSE /\ t[4] = NL2
         THEN <<[chunk_index |-> t[2], content |-> t[5]]>> \o SectionsOf(SubSeq(t, 6, Len(t)))
         ELSE SectionsOf(Tail(t))

(* The chunk-summaries part of a prompt text *)
SummariesPart(body) == SubSeq(body, 2, Len(body) - 1)

(* The S3 read of entry k ended with one of the given outcomes *)
ReadEnded(k, outcomes) ==
    \E g \in 1..Len(run.gets) : run.gets[g].entry = k /\ run.gets[g].outcome \in outcomes

(* Entry k is a dict without status 'error' and with a summary_key *)
Eligible(k) ==
    /\ Items(event)[k].dict
    /\ Items(event)[k].val.status # "error"
    /\ Truthy(Items(event)[k].val.summary_key)

(* The sections the entries from k on call for, in input order, when an entry
   counts if its read ended with one of the given outcomes *)
RECURSIVE ExpectedSections(_, _)
ExpectedSections(k, outcomes) ==
    IF k > Len(Items(event)) THEN <<>>
    ELSE (IF Eligible(k) /\ ReadEnded(k, outcomes)
          THEN <<[chunk_index |-> ToString(Items(event)[k].val.chunk_index),
                  content |-> S3Content(Items(event)[k].val.summary_key)]>>
          ELSE <<>>) \o ExpectedSections(k + 1, outcomes)

(* The loop came to entry k and could not use it: status 'error', no
   summary_key, or its read failed *)
Unusable(k, failures) ==
    /\ run.pc \notin {"start", "validate"}
    /\ k < run.i
    /\ Items(event)[k].dict
    /\ \/ Items(event)[k].val.status = "error"
       \/ ~Truthy(Items(event)[k].val.summary_key)
       \/ ReadEnded(k, failures)

----------------------------------------------------------------------------
(* C1 *)

(* At most one put, to bucket_name under <output_path>/<job_id>/aggregated_
   analysis_prompt.txt; 'success' is returned exactly when the put completed *)
C1_PutShape ==
    /\ Len(run.puts) <= 1
    /\ \A k \in 1..Len(run.puts) :
          run.puts[k].bucket = Get(event, "bucket_name") /\ run.puts[k].key = ExpectedKey
    /\ Done => (run.ret.status = "success" <=> PutCompleted)
    /\ Done /\ run.ret.status = "success" => run.ret.full_prompt_key = ExpectedKey

(* C1 as stated: with the three parameters truthy and no failing put_object
   there is exactly one put and the result is 'success', whatever
   chunk_results holds *)
C1_Original ==
    /\ C1_PutShape
    /\ Done /\ ParamsPresent /\ ~PutFailed =>
          Len(run.puts) = 1 /\ run.ret.status = "success"

(* C1 amended: the same, provided chunk_results is a list of dicts (or is
   left out); the number of summaries collected, zero included, makes no
   difference *)
C1_OnePut ==
    /\ C1_PutShape
    /\ Done /\ ParamsPresent /\ ListOfDicts /\ ~PutFailed =>
          Len(run.puts) = 1 /\ run.ret.status = "success"

C1_Witness ==
    /\ Done
    /\ run.ret.status = "success"
    /\ Len(Items(event)) = MaxChunks
    /\ run.all_summaries = <<>>
    /\ Len(run.puts) = 1

----------------------------------------------------------------------------
(* C2 *)

(* C2 as stated: the chunk-summaries part of the persisted prompt holds one
   section per entry that has no status 'error', has a summary_key and whose
   get_object succeeded, in input order, and no other section *)
C2_Original ==
    \A k \in 1..Len(run.puts) :
        SectionsOf(SummariesPart(run.puts[k].body))
            = ExpectedSections(1, {"ok", "decode_error"})

(* C2 amended: the same, where the entry counts if get_object succeeded and
   its body was read and decoded *)
C2_Sections ==
    \A k \in 1..Len(run.puts) :
        SectionsOf(SummariesPart(run.puts[k].body)) = ExpectedSections(1, {"ok"})

C2_Witness ==
    /\ Len(run.puts) = 1
    /\ Len(SectionsOf(SummariesPart(run.puts[1].body))) = 2
    /\ SectionsOf(SummariesPart(run.puts[1].body))[1].chunk_index = "1"
    /\ SectionsOf(SummariesPart(run.puts[1].body))[2].chunk_index = "0"

----------------------------------------------------------------------------
(* C3 *)

IsPrefix(s, t) == Len(s) <= Len(t) /\ SubSeq(t, 1, Len(s)) = s

StatusSequences ==
    {<<"ERROR">>, <<"AGGREGATING", "AGGREGATED">>, <<"AGGREGATING", "FAILED">>,
     <<"FAILED">>, <<>>}

(* C3: the statuses one invocation asks for are one of the five sequences;
   AGGREGATING is asked for before any read of a chunk summary, AGGREGATED
   only once the put of the prompt has completed *)
C3_StatusOrder ==
    /\ \E t \in StatusSequences : IsPrefix(StatusSeq, t)
    /\ Done => StatusSeq \in StatusSequences
    /\ run.gets # <<>> => StatusSeq # <<>> /\ StatusSeq[1] = "AGGREGATING"
    /\ (\E k \in 1..Len(StatusSeq) : StatusSeq[k] = "AGGREGATED") =>
          PutCompleted /\ ~PutFailed

C3_Witness ==
    /\ Done
    /\ StatusSeq = <<"AGGREGATING", "FAILED">>
    /\ run.gets # <<>>
    /\ PutFailed

----------------------------------------------------------------------------
(* C4 *)

(* C4: with a required parameter missing or falsy (chunk_results being a
   list) the result is the 'Missing required parameters' error, ERROR is the
   one status asked for, and S3 is neither read nor written *)
C4_MissingParameters ==
    ~ParamsPresent /\ event.chunk_results.kind # "null" =>
        /\ run.gets = <<>>
        /\ run.puts = <<>>
        /\ \A k \in 1..Len(StatusSeq) : StatusSeq[k] # "AGGREGATING"
        /\ Done => /\ run.ret = [status |-> "error", error |-> <<MISSING_PARAMS>>]
                   /\ StatusSeq = <<"ERROR">>

C4_Witness ==
    /\ Done
    /\ event.job_id \in JobIds
    /\ event.bucket_name = MISSING
    /\ Len(Items(event)) > 0
    /\ run.ret.status = "error"

----------------------------------------------------------------------------
(* C5 *)

(* What C5 promises of an invocation that met an unusable entry: every entry
   was attempted, every eligible entry was read, the prompt was written and
   the result is 'success' *)
C5_Carried ==
    /\ run.i = Len(Items(event)) + 1
    /\ \A k \in 1..Len(Items(event)) : Eligible(k) => ReadEnded(k, GetOutcomes)
    /\ Len(run.puts) = 1
    /\ run.ret.status = "success"

(* C5 as stated: an entry with status 'error', without summary_key or whose
   get_object raised never keeps the invocation from handling the later
   entries, writing the prompt and returning 'success', given the required
   parameters and no failing put_object *)
C5_Original ==
    Done /\ ParamsPresent /\ ~PutFailed
         /\ (\E k \in 1..Len(Items(event)) : Unusable(k, {"get_error"}))
      => C5_Carried

(* C5 amended: the same, provided every entry of chunk_results is a dict *)
C5_SkipDoesNotAbort ==
    Done /\ ParamsPresent /\ ~PutFailed /\ ListOfDicts
         /\ (\E k \in 1..Len(Items(event)) : Unusable(k, {"get_error"}))
      => C5_Carried

C5_Witness ==
    /\ Done
    /\ Len(Items(event)) = 2
    /\ Unusable(1, {"get_error"})
    /\ ReadEnded(1, {"get_error"})
    /\ ReadEnded(2, {"ok"})
    /\ run.ret.status = "success"

----------------------------------------------------------------------------
(* C6 *)

(* C6: the handler never raises; a failure after parameter extraction ends
   in a FAILED result carrying 'Result aggregation failed: ...' and the
   event's job_id, bucket_name and output_path, and FAILED is asked for with
   that error whenever the event has the key 'job_id' *)
C6_FailureResult ==
    /\ run.ret # Raised
    /\ Done /\ (run.exc # NONE \/ PutFailed \/ event.chunk_results.kind = "null") =>
          /\ run.ret.status = "FAILED"
          /\ Len(run.ret.error) = 2
          /\ run.ret.error[1] = FAILED_PREFIX
          /\ run.ret.job_id = Get(event, "job_id")
          /\ run.ret.bucket_name = Get(event, "bucket_name")
          /\ run.ret.output_path = Get(event, "output_path")
          /\ event.job_id # MISSING =>
                /\ run.requests # <<>>
                /\ run.requests[Len(run.requests)] =
                      [job_id |-> event.job_id, status |-> "FAILED",
                       message |-> run.ret.error]

C6_Witness ==
    /\ Done
    /\ event.job_id = EMPTY
    /\ event.chunk_results.kind = "null"
    /\ run.ret.status = "FAILED"
    /\ StatusSeq = <<"FAILED">>

----------------------------------------------------------------------------
(* C7 *)

(* C7: on success, chunks_processed and the count in the AGGREGATED message
   are the number of summaries collected into the persisted prompt *)
C7_CountIsCollected ==
    Done /\ run.ret.status = "success" =>
        LET n == Len(SectionsOf(SummariesPart(run.puts[1].body)))
        IN /\ run.ret.chunks_processed = n
           /\ run.ret.message[2] = ToString(n)
           /\ run.requests[Len(run.requests)].message[2] = ToString(n)

----------------------------------------------------------------------------
(* C8 *)

(* The two runs agree on position, result and S3 traffic *)
SameOutcome ==
    /\ run.pc = run2.pc
    /\ run.ret = run2.ret
    /\ run.gets = run2.gets
    /\ run.puts = run2.puts

(* A step that calls update_job_status leaves the table alone or sets
   status and updated_at of the job's item, and status_message when a
   message was given; no other step touches the table *)
UpdateEffect ==
    IF Len(run'.requests) = Len(run.requests) + 1
    THEN LET r == run'.requests[Len(run'.requests)]
         IN \/ run'.table = run.table
            \/ /\ r.job_id \in JobIds
               /\ run'.table =
                    [run.table EXCEPT ![r.job_id] =
                        [exists |-> TRUE,
                         status |-> r.status,
                         updated_at |-> run.clock,
                         status_message |->
                            IF r.message # <<>> THEN r.message
                            ELSE run.table[r.job_id].status_message]]
    ELSE run'.table = run.table

(* C8: a failing status store changes neither the handler's result nor its
   S3 reads and writes, and an update sets status, updated_at and, for a
   non-empty message only, status_message *)
C8_StatusStoreIsolated == [](SameOutcome \/ run.pc = "idle") /\ [][UpdateEffect]_vars

(* Both runs returned 'success'; the status store took every update of the
   first and none of the second *)
C8_Witness ==
    /\ Done
    /\ run2.pc = "done"
    /\ run.ret.status = "success"
    /\ run2.ret.status = "success"
    /\ run.gets # <<>>
    /\ run.table["job-1"].status = "AGGREGATED"
    /\ run2.table["job-1"] = OldItem

(* update_job_status without a message updated an item that had one *)
C8_WitnessNoMessage ==
    /\ run.pc = "idle"
    /\ Len(run.requests) = 1
    /\ run.requests[1].message = <<>>
    /\ run.table["job-1"].status = "AGGREGATED"
    /\ run.table["job-1"].updated_at = 1
    /\ run.table["job-1"].status_message = <<"old message">>

====
